---- MODULE Spec2Model ----
(***************************************************************************)
(* Model of zfs-killsnaps.py, the ZFS snapshot cleanup tool.               *)
(*                                                                         *)
(* Several invocations of the script (cron starting the same command line  *)
(* while an earlier one is still running) share one lock file.  Every      *)
(* action is one system call or external command of one invocation,        *)
(* together with the local computation that follows it up to the next one. *)
(* Strings that the code searches or splits are sequences of characters.   *)
(***************************************************************************)
EXTENDS Integers, Sequences, FiniteSets, TLC

\* ------------------------------------------------------------------ bounds
NumRuns == 2        \* concurrent invocations of the script
MaxLines == 3       \* lines of `zfs list` output in the pipeline specification
MaxEnumLines == 2   \* lines of `zfs list` output in the enumerator specification
MaxAge == 3         \* oldest creation stamp, in days, in the age test specification

Runs == 1..NumRuns

\* ------------------------------------------------------------ string data
TAB == "\t"
AT == "@"
SLASH == "/"

weekly == <<"w", "e", "e", "k", "l", "y">>
daily == <<"d", "a", "i", "l", "y">>
monthly == <<"m", "o", "n", "t", "h", "l", "y">>
autosnap == <<"a", "u", "t", "o", "s", "n", "a", "p">>
hourly == <<"h", "o", "u", "r", "l", "y">>
tank == <<"t", "a", "n", "k">>

\* snapshot identifiers that `zfs list` can print
SnapTankWeekly == tank \o <<AT>> \o weekly                       \* tank@weekly
SnapVmWeekly == tank \o <<SLASH, "v", "m", AT>> \o weekly        \* tank/vm@weekly
SnapWeeklyDsDaily == tank \o <<SLASH>> \o weekly \o <<AT>> \o daily  \* tank/weekly@daily
SnapTank2Weekly == tank \o <<"2", AT>> \o weekly                 \* tank2@weekly
SnapTankHourly == tank \o <<AT>> \o hourly                       \* tank@hourly

\* one line of `zfs list -H -t snapshot`: name, then tab-separated columns
ListLine(name) == name \o <<TAB, "0", TAB, "-">>

\* ------------------------------------------------------- DEFAULT_CONFIG
DEFAULT_CONFIG ==
    [logfile |-> "/var/log/zfs-killsnaps.log",
     lockfile |-> "/var/run/zfs-killsnaps.lock",
     email_recipient |-> "admin@example.com",
     retention_policies |->
         (weekly :> 30) @@ (daily :> 7) @@ (monthly :> 90) @@ (autosnap :> 14)]

\* load_config: the defaults when the file is absent, else a shallow
\* dict.update of the parsed document over a copy of the defaults
\* (yaml.safe_load raising is handled by the caller's control flow).
load_config_deep(file) ==
    IF ~file.exists THEN DEFAULT_CONFIG
    ELSE [k \in (DOMAIN DEFAULT_CONFIG) \cup (DOMAIN file.data) |->
            IF k \notin DOMAIN file.data THEN DEFAULT_CONFIG[k]
            ELSE IF k = "retention_policies"
                 THEN file.data[k] @@ DEFAULT_CONFIG[k]
                 ELSE file.data[k]]

load_config(file) ==
    IF ~file.exists THEN DEFAULT_CONFIG
    ELSE [k \in (DOMAIN DEFAULT_CONFIG) \cup (DOMAIN file.data) |->
            IF k \in DOMAIN file.data THEN file.data[k] ELSE DEFAULT_CONFIG[k]]

\* ------------------------------------------------------------ time
MinPerDay == 1440
NowDay == 100
NowMin == 180

\* a creation string in the format "%a %b %d %H:%M %Y" is modelled by the
\* day number and the minute of the day it denotes
Stamp(day, min) == <<"stamp", day, min>>
BadStamp == <<"-">>
NoOutput == <<>>

IsStamp(s) == Len(s) = 3 /\ s[1] = "stamp"

\* parse_creation_date: minutes since the epoch; strptime raises ValueError
\* on a string that is not in the format
CanParse(s) == IsStamp(s)
parse_creation_date(s) == s[2] * MinPerDay + s[3]

now == NowDay * MinPerDay + NowMin

\* timedelta.days: floor of the difference in days
TimedeltaDaysRoundedUp(minutes) == (minutes + MinPerDay - 1) \div MinPerDay
TimedeltaDays(minutes) == minutes \div MinPerDay

is_older_than_strict(creation_str, days) ==
    TimedeltaDays(now - parse_creation_date(creation_str)) > days

is_older_than(creation_str, days) ==
    TimedeltaDays(now - parse_creation_date(creation_str)) >= days

\* ------------------------------------------------------- load_snapshots
\* line.split('\t')[0]
RECURSIVE FirstField(_)
FirstField(line) ==
    IF line = <<>> \/ Head(line) = TAB THEN <<>>
    ELSE <<Head(line)>> \o FirstField(Tail(line))

\* name.startswith(prefix)
StartsWith(name, prefix) ==
    /\ Len(prefix) <= Len(name)
    /\ SubSeq(name, 1, Len(prefix)) = prefix

\* pattern in name
Contains(pattern, name) ==
    \E i \in 0..(Len(name) - Len(pattern)) :
        SubSeq(name, i + 1, i + Len(pattern)) = pattern

\* the filter of line 93; an unset pool and the empty pool are both falsy
Keeps(name, pattern, pool) ==
    /\ Contains(pattern, name)
    /\ (pool = <<>> \/ StartsWith(name, pool \o <<AT>>) \/ StartsWith(name, pool \o <<SLASH>>))

\* the loop of lines 90-95 over the lines of the listing
RECURSIVE load_snapshots(_, _, _)
load_snapshots(lines, pattern, pool) ==
    IF lines = <<>> THEN <<>>
    ELSE LET name == FirstField(Head(lines))
             rest == load_snapshots(Tail(lines), pattern, pool)
         IN IF Keeps(name, pattern, pool) THEN <<name>> \o rest ELSE rest

\* get_policy_age: policies.get(pattern, 0)
get_policy_age_weekly_default(pattern, policies) ==
    IF pattern \in DOMAIN policies THEN policies[pattern] ELSE 30

get_policy_age(pattern, policies) ==
    IF pattern \in DOMAIN policies THEN policies[pattern] ELSE 0

\* line 166: args.age or get_policy_age(...); None and 0 are both falsy
AgeDays(args, cfg) ==
    IF args.age # <<>> /\ args.age[1] # 0 THEN args.age[1]
    ELSE get_policy_age(args.pattern, cfg.retention_policies)

\* --------------------------------------------------------------- state
VARIABLES
    cfgFile,     \* the file at --config: [exists, valid, data]
    args,        \* the parsed command line: [pattern, age, recursive, dry_run, pool]
    zfsOut,      \* the lines `zfs list -H -t snapshot` prints
    zfsCreation, \* the strings `zfs get -H -o value creation` can print
    marker,      \* TRUE iff a file exists at config['lockfile']
    pc,          \* per run: the next system call or external command
    config,      \* per run: <<>> before load_config, then <<the dict>>
    age_days,    \* per run: the threshold of line 166
    snapshots,   \* per run: the list load_snapshots returned
    idx,         \* per run: position of the loop of line 127 in that list
    destroyed,   \* per run: the counter of line 126
    exc,         \* per run: the exception in flight
    status,      \* per run: the exit status once pc = "done"
    trace,       \* per run: the system calls and commands issued, in order
    log          \* per run: the records written through logging

vars == <<cfgFile, args, zfsOut, zfsCreation, marker, pc, config, age_days, snapshots, idx,
          destroyed, exc, status, trace, log>>

env == <<cfgFile, args, zfsOut, zfsCreation>>

Ev(op, snap, aux, code) == [op |-> op, snap |-> snap, aux |-> aux, code |-> code]
Msg(level, msg, snap, n) == [level |-> level, msg |-> msg, snap |-> snap, n |-> n]

\* what `zfs get -H -o value creation` can print
CreationOutputs ==
    {NoOutput, BadStamp,
     Stamp(NowDay - 10, NowMin), Stamp(NowDay - 30, NowMin), Stamp(NowDay - 45, NowMin)}

ConfigFiles ==
    {[exists |-> FALSE, valid |-> TRUE, data |-> <<>>],
     [exists |-> TRUE, valid |-> FALSE, data |-> <<>>],
     [exists |-> TRUE, valid |-> TRUE, data |-> <<>>],
     [exists |-> TRUE, valid |-> TRUE,
      data |-> [retention_policies |-> (daily :> 10)]]}

\* documents that set any of the four keys, each to a value of its own
OverrideValues ==
    [logfile : {"/tmp/killsnaps.log"},
     lockfile : {"/tmp/killsnaps.lock"},
     email_recipient : {"ops@example.com"},
     retention_policies : {(daily :> 10), (weekly :> 5) @@ (hourly :> 1), (hourly :> 45)}]

OverrideFiles ==
    {[exists |-> TRUE, valid |-> TRUE, data |-> [k \in keys |-> full[k]]] :
         full \in OverrideValues, keys \in (SUBSET DOMAIN DEFAULT_CONFIG) \ {{}}}

ArgSets ==
    [pattern : {weekly, hourly}, age : {<<>>, <<0>>, <<45>>},
     recursive : BOOLEAN, dry_run : BOOLEAN, pool : {<<>>, tank}]

Names == {SnapTankWeekly, SnapVmWeekly, SnapWeeklyDsDaily, SnapTank2Weekly, SnapTankHourly}

\* the identifiers a listing prints
Listed(l) == {FirstField(l[i]) : i \in 1..Len(l)}

\* listings of at most n lines over the identifiers `names`, none twice
RECURSIVE Listings(_, _)
Listings(names, n) ==
    IF n = 0 THEN {<<>>}
    ELSE LET shorter == Listings(names, n - 1)
         IN shorter \cup
            UNION {{Append(l, ListLine(x)) : x \in names \ Listed(l)} :
                       l \in {m \in shorter : Len(m) = n - 1}}

Fresh ==
    /\ marker = FALSE
    /\ pc = [p \in Runs |-> "idle"]
    /\ config = [p \in Runs |-> <<>>]
    /\ age_days = [p \in Runs |-> 0]
    /\ snapshots = [p \in Runs |-> <<>>]
    /\ idx = [p \in Runs |-> 0]
    /\ destroyed = [p \in Runs |-> 0]
    /\ exc = [p \in Runs |-> "none"]
    /\ status = [p \in Runs |-> 0]
    /\ trace = [p \in Runs |-> <<>>]
    /\ log = [p \in Runs |-> <<>>]

\* ------------------------------------------------------------- actions
\* lines 165-176: whatever way control leaves the try block (return, sys.exit,
\* an exception), the finally block runs unlock() next
SkipFinallyPc == "done"
FinallyPc == "unlock"

\* lines 111-113 and 163: lock_or_exit is called before the try statement, so
\* its sys.exit(1) ends the process without the finally block
LockHeldInsideTryPc == "unlock"
LockHeldIgnoredPc == "list"
LockHeldPc == "done"

\* lines 138-142: the counter after a destroy command that returned `code`
DestroyedAlways(n, code) == n + 1
DestroyedAfter(n, code) == IF code = 0 THEN n + 1 ELSE n

\* lines 133-136: what follows "Found snapshot" for an eligible snapshot
EligibleIgnoringDryRun(dry_run) == "destroy"
EligibleStep(dry_run) == IF dry_run THEN "log" ELSE "destroy"

\* lines 146-163 up to the os.path.exists of lock_or_exit
Start(p) ==
    /\ pc[p] = "idle"
    /\ IF cfgFile.exists /\ ~cfgFile.valid
       THEN \* yaml.safe_load raises at line 67, outside the try of line 165
            /\ pc' = [pc EXCEPT ![p] = "done"]
            /\ exc' = [exc EXCEPT ![p] = "YAMLError"]
            /\ status' = [status EXCEPT ![p] = 1]
            /\ UNCHANGED <<config, trace, log>>
       ELSE /\ config' = [config EXCEPT ![p] = <<load_config(cfgFile)>>]
            /\ IF marker
               THEN \* lines 111-113: sys.exit(1), outside the try as well
                    /\ trace' = [trace EXCEPT ![p] = Append(@, Ev("exists", <<>>, <<>>, 1))]
                    /\ log' = [log EXCEPT ![p] = Append(@, Msg("ERROR", "LockExists", <<>>, 0))]
                    /\ pc' = [pc EXCEPT ![p] = LockHeldPc]
                    /\ exc' = [exc EXCEPT ![p] = "SystemExit"]
                    /\ status' = [status EXCEPT ![p] = 1]
               ELSE /\ trace' = [trace EXCEPT ![p] = Append(@, Ev("exists", <<>>, <<>>, 0))]
                    /\ pc' = [pc EXCEPT ![p] = "create"]
                    /\ UNCHANGED <<log, exc, status>>
    /\ UNCHANGED <<env, marker, age_days, snapshots, idx, destroyed>>

\* line 114, open(lockfile, 'w').close(), then lines 115 and 163-166
Create(p) ==
    /\ pc[p] = "create"
    /\ marker' = TRUE
    /\ trace' = [trace EXCEPT ![p] = Append(@, Ev("create", <<>>, <<>>, 0))]
    /\ age_days' = [age_days EXCEPT ![p] = AgeDays(args, config[p][1])]
    /\ pc' = [pc EXCEPT ![p] = "list"]
    /\ UNCHANGED <<env, config, snapshots, idx, destroyed, exc, status, log>>

\* load_snapshots and lines 121-127
List(p) ==
    /\ pc[p] = "list"
    /\ \E code \in {0, 1} :
         /\ trace' = [trace EXCEPT ![p] = Append(@, Ev("list", <<>>, <<>>, code))]
         /\ IF code # 0
            THEN /\ log' = [log EXCEPT ![p] = Append(@, Msg("ERROR", "ListFailed", <<>>, 0))]
                 /\ exc' = [exc EXCEPT ![p] = "SystemExit"]
                 /\ pc' = [pc EXCEPT ![p] = FinallyPc]
                 /\ UNCHANGED <<snapshots, idx, destroyed>>
            ELSE LET found == load_snapshots(zfsOut, args.pattern, args.pool)
                 IN /\ snapshots' = [snapshots EXCEPT ![p] = found]
                    /\ exc' = exc
                    /\ IF found = <<>>
                       THEN /\ log' = [log EXCEPT ![p] = Append(@, Msg("INFO", "NoSnapshots", <<>>, 0))]
                            /\ pc' = [pc EXCEPT ![p] = FinallyPc]
                            /\ UNCHANGED <<idx, destroyed>>
                       ELSE /\ destroyed' = [destroyed EXCEPT ![p] = 0]
                            /\ idx' = [idx EXCEPT ![p] = 1]
                            /\ pc' = [pc EXCEPT ![p] = "get"]
                            /\ log' = log
    /\ UNCHANGED <<env, marker, config, age_days, status>>

\* the loop of line 127 moves to the next snapshot, or ends and line 143 logs
\* the total; `lines` are the records the iteration wrote, `n` the counter
Advance(p, lines, n) ==
    IF idx[p] < Len(snapshots[p])
    THEN /\ idx' = [idx EXCEPT ![p] = @ + 1]
         /\ pc' = [pc EXCEPT ![p] = "get"]
         /\ log' = [log EXCEPT ![p] = @ \o lines]
    ELSE /\ idx' = idx
         /\ pc' = [pc EXCEPT ![p] = FinallyPc]
         /\ log' = [log EXCEPT ![p] = @ \o lines \o <<Msg("INFO", "Total", <<>>, n)>>]

\* get_snapshot_creation and lines 128-134 for snapshots[idx]
Get(p) ==
    /\ pc[p] = "get"
    /\ LET snap == snapshots[p][idx[p]] IN
       \E code \in {0, 1}, out \in zfsCreation :
         /\ code # 0 => out = NoOutput
         /\ trace' = [trace EXCEPT ![p] = Append(@, Ev("get", snap, out, code))]
         /\ IF code # 0
            THEN /\ Advance(p, <<Msg("WARNING", "NoCreation", snap, 0)>>, destroyed[p])
                 /\ exc' = exc
            ELSE IF out = NoOutput
            THEN /\ Advance(p, <<>>, destroyed[p])
                 /\ exc' = exc
            ELSE IF ~CanParse(out)
            THEN \* strptime raises ValueError, caught by nothing but the finally
                 /\ exc' = [exc EXCEPT ![p] = "ValueError"]
                 /\ pc' = [pc EXCEPT ![p] = FinallyPc]
                 /\ UNCHANGED <<idx, log>>
            ELSE IF ~is_older_than(out, age_days[p])
            THEN /\ Advance(p, <<>>, destroyed[p])
                 /\ exc' = exc
            ELSE IF EligibleStep(args.dry_run) = "log"
            THEN /\ Advance(p, <<Msg("INFO", "Found", snap, 0),
                                 Msg("INFO", "WouldDestroy", snap, 0)>>, destroyed[p])
                 /\ exc' = exc
            ELSE /\ log' = [log EXCEPT ![p] = Append(@, Msg("INFO", "Found", snap, 0))]
                 /\ pc' = [pc EXCEPT ![p] = "destroy"]
                 /\ UNCHANGED <<idx, exc>>
    /\ UNCHANGED <<env, marker, config, age_days, snapshots, destroyed, status>>

\* lines 136-142 for snapshots[idx]
Destroy(p) ==
    /\ pc[p] = "destroy"
    /\ LET snap == snapshots[p][idx[p]] IN
       \E code \in {0, 1} :
         /\ trace' = [trace EXCEPT ![p] = Append(@, Ev("destroy", snap, IF args.recursive THEN <<"-r">> ELSE <<>>, code))]
         /\ IF code = 0
            THEN Advance(p, <<Msg("INFO", "Destroyed", snap, 0)>>, DestroyedAfter(destroyed[p], code))
            ELSE Advance(p, <<Msg("ERROR", "DestroyFailed", snap, 0)>>, DestroyedAfter(destroyed[p], code))
         /\ destroyed' = [destroyed EXCEPT ![p] = DestroyedAfter(@, code)]
    /\ UNCHANGED <<env, marker, config, age_days, snapshots, exc, status>>

\* line 176: unlock() is os.remove(lockfile)
Unlock(p) ==
    /\ pc[p] = "unlock"
    /\ IF marker
       THEN /\ marker' = FALSE
            /\ trace' = [trace EXCEPT ![p] = Append(@, Ev("remove", <<>>, <<>>, 0))]
            /\ pc' = [pc EXCEPT ![p] = "mail"]
            /\ UNCHANGED <<exc, status>>
       ELSE \* FileNotFoundError leaves the finally block before line 177
            /\ marker' = marker
            /\ trace' = [trace EXCEPT ![p] = Append(@, Ev("remove", <<>>, <<>>, 1))]
            /\ exc' = [exc EXCEPT ![p] = "FileNotFoundError"]
            /\ status' = [status EXCEPT ![p] = 1]
            /\ pc' = [pc EXCEPT ![p] = "done"]
    /\ UNCHANGED <<env, config, age_days, snapshots, idx, destroyed, log>>

\* line 177: send_email, then the exception in flight ends the process
Mail(p) ==
    /\ pc[p] = "mail"
    /\ \E sent \in BOOLEAN :
         trace' = [trace EXCEPT ![p] = Append(@, Ev("send_email", <<>>, <<>>, IF sent THEN 0 ELSE 1))]
    /\ status' = [status EXCEPT ![p] = IF exc[p] = "none" THEN 0 ELSE 1]
    /\ pc' = [pc EXCEPT ![p] = "done"]
    /\ UNCHANGED <<env, marker, config, age_days, snapshots, idx, destroyed, exc, log>>

Step(p) ==
    \/ Start(p)
    \/ Create(p)
    \/ List(p)
    \/ Get(p)
    \/ Destroy(p)
    \/ Unlock(p)
    \/ Mail(p)

\* ------------------------------------------------------ specifications
\* overlapping invocations of one cron entry
Init ==
    /\ cfgFile \in ConfigFiles
    /\ args \in {a \in ArgSets : a.pattern = weekly /\ a.age = <<>> /\ a.pool = <<>> /\ ~a.recursive}
    /\ zfsOut \in {<<>>, <<ListLine(SnapTankWeekly)>>}
    /\ zfsCreation = CreationOutputs
    /\ Fresh

Next == \E p \in Runs : Step(p)

Spec == Init /\ [][Next]_vars

\* one invocation, no other running
InitRun ==
    /\ cfgFile \in ConfigFiles
    /\ args \in {a \in ArgSets : a.pool = <<>>}
    /\ zfsOut \in Listings(Names \ {SnapTank2Weekly}, MaxLines)
    /\ zfsCreation = CreationOutputs
    /\ Fresh

NextRun == Step(1)

SpecRun == InitRun /\ [][NextRun]_vars

\* the enumerator alone, on every listing, pattern and pool
InitEnum ==
    /\ cfgFile \in {f \in ConfigFiles : ~f.exists}
    /\ args \in [pattern : {weekly, daily, hourly}, age : {<<>>}, recursive : {FALSE},
                 dry_run : {TRUE}, pool : {<<>>, tank}]
    /\ zfsOut \in Listings(Names, MaxEnumLines)
    /\ zfsCreation = CreationOutputs
    /\ Fresh

NextEnum ==
    \/ Start(1)
    \/ Create(1)
    \/ List(1)

SpecEnum == InitEnum /\ [][NextEnum]_vars

\* the configuration loader alone, on every override document, up to the
\* threshold the run derives from the loaded policies
InitCfg ==
    /\ cfgFile \in ConfigFiles \cup OverrideFiles
    /\ args \in {a \in ArgSets : a.age = <<>> /\ a.pool = <<>> /\ ~a.recursive /\ a.dry_run}
    /\ zfsOut = <<>>
    /\ zfsCreation = CreationOutputs
    /\ Fresh

NextCfg ==
    \/ Start(1)
    \/ Create(1)

SpecCfg == InitCfg /\ [][NextCfg]_vars

\* the age test alone: creation stamps a minute either side of every whole
\* number of days up to MaxAge (and of one day ahead of now), against every
\* threshold up to MaxAge + 1, the policy default 0 and the weekly policy
BoundaryStamps ==
    {Stamp(NowDay - n, m) : n \in -1..MaxAge, m \in {NowMin - 1, NowMin, NowMin + 1}}

InitAge ==
    /\ cfgFile \in {f \in ConfigFiles : ~f.exists}
    /\ args \in [pattern : {weekly, hourly}, age : {<<>>} \cup {<<d>> : d \in 1..(MaxAge + 1)},
                 recursive : {FALSE}, dry_run : BOOLEAN, pool : {<<>>}]
    /\ zfsOut = <<ListLine(SnapTankWeekly), ListLine(SnapTankHourly)>>
    /\ zfsCreation = BoundaryStamps
    /\ Fresh

NextAge ==
    \/ Start(1)
    \/ Create(1)
    \/ List(1)
    \/ Get(1)
    \/ Destroy(1)

SpecAge == InitAge /\ [][NextAge]_vars

\* ---------------------------------------------------------- properties
\* positions in the trace of run p of the calls `op`
Events(p, op) == {i \in DOMAIN trace[p] : trace[p][i].op = op}

\* run p created the lock file; it holds the lock until it calls os.remove
Acquired(p) == Events(p, "create") # {}
Holding(p) == Acquired(p) /\ Events(p, "remove") = {}

\* run p found the lock file in place
LockHeld(p) == \E i \in Events(p, "exists") : trace[p][i].code = 1

\* C1: mutual exclusion -- at no time are two invocations between their lock
\* acquisition and their lock release.
MutualExclusion ==
    \A p, q \in Runs : p # q => ~(Holding(p) /\ Holding(q))

\* C2: guaranteed release -- a run that acquired the lock has called the
\* release by the time its process has exited, on every exit path of the
\* pipeline, and the lock file does not exist when the release call returns.
GuaranteedRelease ==
    [][\A p \in Runs :
         /\ (Acquired(p)' /\ pc'[p] = "done") => Events(p, "remove")' # {}
         /\ Events(p, "remove")' # Events(p, "remove") => ~marker']_vars

\* a run whose pipeline raised has exited and the lock file is gone
ReleasedAfterError ==
    \E p \in Runs :
        /\ Acquired(p) /\ pc[p] = "done" /\ ~marker
        /\ exc[p] \in {"SystemExit", "ValueError"}
        /\ \E i \in Events(p, "remove") : trace[p][i].code = 0

\* C3: a run that finds the lock file in place leaves it as it is, issues
\* nothing but the existence test and exits with a non-zero status; creating
\* the lock file on a clear path makes it exist, and a release removes it.
LockHeldLeavesMarker ==
    [][\A p \in Runs :
         /\ LockHeld(p)' =>
                /\ Len(trace'[p]) = 1
                /\ pc'[p] = "done"
                /\ status'[p] # 0
         /\ (LockHeld(p)' /\ ~LockHeld(p)) => (marker' = marker /\ marker)
         /\ Events(p, "create")' # Events(p, "create") => marker'
         /\ Events(p, "remove")' # Events(p, "remove") => ~marker']_vars

\* a run was refused while another run holds the lock, the file still there
LockRefusedWhileHeld ==
    \E p, q \in Runs : LockHeld(p) /\ pc[p] = "done" /\ Holding(q) /\ marker

\* C4: when the listing command fails the run issues no creation query and no
\* destroy, the lock file is removed, the notifier is invoked and the exit
\* status is not zero.
ListFailureReleasesAndNotifies ==
    \A p \in Runs :
        (pc[p] = "done" /\ \E i \in Events(p, "list") : trace[p][i].code # 0) =>
            /\ Events(p, "get") = {} /\ Events(p, "destroy") = {}
            /\ Events(p, "remove") # {}
            /\ Events(p, "send_email") # {}
            /\ status[p] # 0

\* C5: every run that has exited has invoked the notifier, after its release
\* of the lock if it made one.
NotifierAlwaysInvoked ==
    \A p \in Runs :
        pc[p] = "done" =>
            \E i \in Events(p, "send_email") : \A j \in Events(p, "remove") : j < i

\* the records of run p with message `msg`
Logged(p, msg) == {i \in DOMAIN log[p] : log[p][i].msg = msg}

\* run p has left the loop over the snapshots
LeftPipeline(p) == pc[p] \in {"unlock", "mail", "done"} /\ Events(p, "list") # {}

\* C6: a creation query that fails, or prints what does not parse, only skips
\* its snapshot: no destroy for it, every snapshot of the list still gets its
\* query, the total is logged and the exit status is 0.
CreationFailureNonFatal ==
    \A p \in Runs :
        \A i \in Events(p, "get") :
            ((trace[p][i].code # 0 \/ ~CanParse(trace[p][i].aux)) /\ LeftPipeline(p)) =>
                /\ \A j \in Events(p, "destroy") : trace[p][j].snap # trace[p][i].snap
                /\ \A k \in DOMAIN snapshots[p] :
                       \E j \in Events(p, "get") : trace[p][j].snap = snapshots[p][k]
                /\ Logged(p, "Total") # {}
                /\ (pc[p] = "done" => status[p] = 0)

\* whole days between a creation stamp and now, from the calendar fields
ElapsedDays(out) == NowDay - out[2] - (IF out[3] > NowMin THEN 1 ELSE 0)

\* the creation query at position i of the trace of run p found its snapshot
\* old enough for the threshold of the run
Eligible(p, i) ==
    /\ trace[p][i].code = 0
    /\ IsStamp(trace[p][i].aux)
    /\ ElapsedDays(trace[p][i].aux) >= age_days[p]

DestroyedOk(p) == {i \in Events(p, "destroy") : trace[p][i].code = 0}

Position(p, snap) == CHOOSE k \in DOMAIN snapshots[p] : snapshots[p][k] = snap

AllSucceeded(p) ==
    \A i \in DOMAIN trace[p] :
        /\ trace[p][i].op \in {"list", "get", "destroy"} => trace[p][i].code = 0
        /\ trace[p][i].op = "get" => IsStamp(trace[p][i].aux)

\* the snapshots of the list of run p whose query found them old enough
EligibleSnaps(p) == {trace[p][i].snap : i \in {j \in Events(p, "get") : Eligible(p, j)}}

\* C8: in live mode with every command succeeding, destroy is invoked on
\* exactly the listed snapshots whose elapsed whole days reach the threshold,
\* and the logged total is the number of them.
LiveDestroysExactlyEligible ==
    \A p \in Runs :
        (~args.dry_run /\ AllSucceeded(p) /\ Logged(p, "Total") # {}) =>
            /\ {trace[p][i].snap : i \in Events(p, "get")} =
                   {snapshots[p][k] : k \in DOMAIN snapshots[p]}
            /\ {trace[p][i].snap : i \in Events(p, "destroy")} = EligibleSnaps(p)
            /\ Cardinality(Events(p, "destroy")) = Cardinality(EligibleSnaps(p))
            /\ \A i \in Logged(p, "Total") : log[p][i].n = Cardinality(EligibleSnaps(p))

\* the creation stamp the query for `snap` printed in run p is `days` old
AgedDays(p, snap, days) ==
    \E i \in Events(p, "get") :
        /\ trace[p][i].snap = snap /\ trace[p][i].code = 0
        /\ trace[p][i].aux = Stamp(NowDay - days, NowMin)

\* three weekly snapshots 10, 30 and 45 days old under the default policy
ScenarioAges(p) ==
    /\ args.pattern = weekly /\ args.age = <<>>
    /\ config[p] = <<DEFAULT_CONFIG>>
    /\ Len(snapshots[p]) = 3
    /\ AgedDays(p, snapshots[p][1], 10)
    /\ AgedDays(p, snapshots[p][2], 30)
    /\ AgedDays(p, snapshots[p][3], 45)

\* the live run of the scenario destroyed the 30- and the 45-day snapshot
ScenarioDestroysTwo ==
    \E p \in Runs :
        /\ ScenarioAges(p) /\ ~args.dry_run /\ AllSucceeded(p)
        /\ {trace[p][i].snap : i \in DestroyedOk(p)} = {snapshots[p][2], snapshots[p][3]}
        /\ \E i \in Logged(p, "Total") : log[p][i].n = 2

\* C9: a dry run never invokes destroy; each snapshot found old enough gets
\* exactly one "Would destroy" record, every other snapshot none, and the
\* destroyed count stays 0.
DryRunDestroysNothing ==
    \A p \in Runs :
        args.dry_run =>
            /\ Events(p, "destroy") = {}
            /\ destroyed[p] = 0
            /\ \A i \in Logged(p, "Total") : log[p][i].n = 0
            /\ \A k \in DOMAIN snapshots[p] :
                   Cardinality({i \in Logged(p, "WouldDestroy") :
                                    log[p][i].snap = snapshots[p][k]}) =
                       IF snapshots[p][k] \in EligibleSnaps(p) THEN 1 ELSE 0

\* the dry run of the scenario logged two "Would destroy" and a total of 0
ScenarioDryRunLogsTwo ==
    \E p \in Runs :
        /\ ScenarioAges(p) /\ args.dry_run
        /\ Cardinality(Logged(p, "WouldDestroy")) = 2
        /\ \E i \in Logged(p, "Total") : log[p][i].n = 0

\* the part of an identifier after its '@'
RECURSIVE NamePortion(_)
NamePortion(name) ==
    IF name = <<>> THEN <<>>
    ELSE IF Head(name) = AT THEN Tail(name)
    ELSE NamePortion(Tail(name))

\* the filter on the name portion of an identifier
KeepsNamePortion(name, pattern, pool) ==
    /\ Contains(pattern, NamePortion(name))
    /\ (pool = <<>> \/ StartsWith(name, pool \o <<AT>>) \/ StartsWith(name, pool \o <<SLASH>>))


RECURSIVE FilterByNamePortion(_, _, _)
FilterByNamePortion(lines, pattern, pool) ==
    IF lines = <<>> THEN <<>>
    ELSE LET name == FirstField(Head(lines))
             rest == FilterByNamePortion(Tail(lines), pattern, pool)
         IN IF KeepsNamePortion(name, pattern, pool) THEN <<name>> \o rest ELSE rest

\* C10: the enumerator returns, in listing order, exactly the identifiers
\* whose name portion (after the '@') contains the pattern and that are in
\* the pool when one is given.
EnumeratorMatchesNamePortion ==
    \A p \in Runs :
        (\E i \in Events(p, "list") : trace[p][i].code = 0) =>
            snapshots[p] = FilterByNamePortion(zfsOut, args.pattern, args.pool)

\* C11: the threshold of a run is the value given with --age whenever one is
\* given, 0 included, and the retention policy of the pattern only when
\* --age is absent.
AgeOverridesPolicy ==
    \A p \in Runs :
        Acquired(p) =>
            age_days[p] =
                IF args.age # <<>> THEN args.age[1]
                ELSE get_policy_age(args.pattern, config[p][1].retention_policies)

\* C12: the loaded configuration has, for every top-level key, the value of
\* the override document when the document sets the key and the default when
\* it does not; a retention_policies map of the document is the policy map of
\* the run as it stands, with no default entry added.
ShallowMerge ==
    \A p \in Runs :
        config[p] # <<>> =>
            LET cfg == config[p][1]
                doc == cfgFile.data
            IN IF ~cfgFile.exists THEN cfg = DEFAULT_CONFIG
               ELSE /\ DOMAIN cfg = (DOMAIN DEFAULT_CONFIG) \cup (DOMAIN doc)
                    /\ \A k \in (DOMAIN DEFAULT_CONFIG) \ (DOMAIN doc) : cfg[k] = DEFAULT_CONFIG[k]
                    /\ \A k \in DOMAIN doc :
                           /\ cfg[k] = doc[k]
                           /\ k = "retention_policies" => DOMAIN cfg[k] = DOMAIN doc[k]

\* a document that sets only a partial policy map was loaded: the policies of
\* the run are that map alone and the other keys have their defaults
PartialPolicyReplacesDefaults ==
    \E p \in Runs :
        /\ cfgFile.exists /\ DOMAIN cfgFile.data = {"retention_policies"}
        /\ cfgFile.data.retention_policies = (daily :> 10)
        /\ config[p] # <<>>
        /\ DOMAIN config[p][1].retention_policies = {daily}
        /\ config[p][1].logfile = DEFAULT_CONFIG.logfile
        /\ Acquired(p) /\ args.pattern = weekly /\ age_days[p] = 0

\* the creation query at position i of the trace of run p was followed by the
\* "Found snapshot" record, i.e. is_older_than returned true for it
FoundOld(p, i) ==
    \E j \in Logged(p, "Found") : log[p][j].snap = trace[p][i].snap

\* C13: the age test is true exactly when the whole days elapsed since the
\* creation stamp reach the threshold; a stamp exactly N days before now
\* passes for threshold N and fails for threshold N + 1.
AgeTestInclusive ==
    \A p \in Runs :
        \A i \in Events(p, "get") :
            (trace[p][i].code = 0 /\ IsStamp(trace[p][i].aux)) =>
                LET out == trace[p][i].aux
                    N == NowDay - out[2]
                IN /\ FoundOld(p, i) <=> (ElapsedDays(out) >= age_days[p])
                   /\ (out[3] = NowMin /\ age_days[p] = N) => FoundOld(p, i)
                   /\ (out[3] = NowMin /\ age_days[p] = N + 1) => ~FoundOld(p, i)

\* a snapshot created exactly as many days ago as the threshold, at least
\* one, was found old enough
ExactlyThresholdFound ==
    \E p \in Runs :
        \E i \in Events(p, "get") :
            /\ trace[p][i].code = 0 /\ IsStamp(trace[p][i].aux)
            /\ trace[p][i].aux[3] = NowMin
            /\ age_days[p] = NowDay - trace[p][i].aux[2]
            /\ age_days[p] >= 1
            /\ FoundOld(p, i)

\* C14: a release that finds the lock file already gone raises nothing: the
\* run goes on to the notifier and exits as its pipeline decided.
ReleaseToleratesMissingMarker ==
    \A p \in Runs :
        (pc[p] = "done" /\ \E i \in Events(p, "remove") : trace[p][i].code # 0) =>
            /\ Events(p, "send_email") # {}
            /\ exc[p] # "FileNotFoundError"

\* the snapshot commands of a run
SnapshotCommands(p) ==
    Events(p, "list") \cup Events(p, "get") \cup Events(p, "destroy")

\* C15: in a run every list, creation query and destroy comes after the
\* creation of the lock file by that run and before its release, and the
\* notifier comes after the release; a step that issues a snapshot command is
\* a step of a run that is between its acquisition and its release.
RunOrdering ==
    [][\A p \in Runs :
         /\ \A i \in SnapshotCommands(p)' :
                /\ \E j \in Events(p, "create")' : j < i
                /\ \A k \in Events(p, "remove")' : i < k
         /\ \A i \in Events(p, "send_email")' :
                \E k \in Events(p, "remove")' : k < i
         /\ SnapshotCommands(p)' # SnapshotCommands(p) => Holding(p)]_vars

\* a run went through acquisition, listing, query, destroy, release and
\* notification
FullRunInOrder ==
    \E p \in Runs :
        \E c \in Events(p, "create"), l \in Events(p, "list"), g \in Events(p, "get"),
           d \in Events(p, "destroy"), r \in Events(p, "remove"),
           m \in Events(p, "send_email") :
            c < l /\ l < g /\ g < d /\ d < r /\ r < m

\* C16: a run whose enumerator returns nothing logs one informational
\* record, issues no creation query and no destroy, releases the lock,
\* invokes the notifier and exits with status 0.
EmptyListShortCircuits ==
    \A p \in Runs :
        (/\ pc[p] = "done"
         /\ \E i \in Events(p, "list") : trace[p][i].code = 0
         /\ snapshots[p] = <<>>) =>
            /\ Cardinality(Logged(p, "NoSnapshots")) = 1
            /\ Events(p, "get") = {} /\ Events(p, "destroy") = {}
            /\ Events(p, "remove") # {}
            /\ Events(p, "send_email") # {}
            /\ status[p] = 0

\* run p was started without --age for a pattern its policy map does not have
NoPolicy(p) ==
    /\ args.age = <<>>
    /\ config[p] # <<>>
    /\ args.pattern \notin DOMAIN config[p][1].retention_policies

\* C17: without --age and without a policy entry for the pattern the
\* threshold is 0: a live run invokes destroy on every listed snapshot whose
\* creation stamp it fetched and that is not in the future, whatever its age.
MissingPolicyProtectsNothing ==
    \A p \in Runs :
        (NoPolicy(p) /\ Acquired(p)) =>
            /\ age_days[p] = 0
            /\ \A i \in Events(p, "get") :
                   (/\ ~args.dry_run
                    /\ trace[p][i].code = 0 /\ IsStamp(trace[p][i].aux)
                    /\ parse_creation_date(trace[p][i].aux) <= now) =>
                       IF i = Len(trace[p]) THEN pc[p] = "destroy"
                       ELSE /\ trace[p][i + 1].op = "destroy"
                            /\ trace[p][i + 1].snap = trace[p][i].snap

\* a snapshot created earlier today was destroyed by a live run for a pattern
\* without policy
TodaysSnapshotDestroyed ==
    \E p \in Runs :
        /\ NoPolicy(p) /\ ~args.dry_run
        /\ \E i \in Events(p, "get") :
               /\ trace[p][i].aux = Stamp(NowDay, NowMin - 1)
               /\ \E j \in DestroyedOk(p) : trace[p][j].snap = trace[p][i].snap

====
